---- MODULE Spec2Model ----
(***************************************************************************)
(* Model of Algorithm/distribution.py of STMiner: the Sample Builder       *)
(* (_array_to_list), the Model Fitter (fit_gmm, fit_gmm_bic), the          *)
(* sequential batch operations (fit_gmms, fit_gmms_bic) and the parallel   *)
(* orchestrator (fit_gmms_multiprocessing with _fit_worker).               *)
(*                                                                         *)
(* Python values are modelled as records with a "kind" field: a returned   *)
(* None is [kind |-> "none"], a raised exception is [kind |-> "raise",     *)
(* exc, msg] whose msg is the sequence of the string pieces that the code  *)
(* concatenates.  Matrices are 0-based like numpy arrays.                  *)
(***************************************************************************)
EXTENDS Integers, Sequences, FiniteSets, TLC

VARIABLES pc,            \* which operation is called and whether it has ended
          adata,         \* the container: gene -> count matrix, or Bad
          args,          \* the arguments of the call
          outcome,       \* return value or exception of the call
          sample,        \* the point cloud handed to the distinct-point guard
          solver_calls,  \* GaussianMixture(...).fit invocations, in order
          pct_calls,     \* percentile arguments handed to np.percentile
          stdout,        \* lines printed
          bic,           \* gmm.bic(result) of the model fitted for <<gene, k>>
          idx,           \* batch loops: number of list entries already handled
          gmm_dict,      \* batch loops: gene -> fitted model
          comp_dict,     \* fit_gmms_bic: component count -> genes
          dropped_genes_count,
          fit_log,       \* batch loops: the per-gene fit calls made, in order
          task_queue,    \* pool: dispatched tasks no worker has taken yet
          workers,       \* pool: what each worker process is doing
          async_results, \* pool: the AsyncResult of each dispatched task
          shared_dict    \* pool: the manager dictionary

callVars == <<outcome, sample, solver_calls, pct_calls, stdout>>
batchVars == <<idx, gmm_dict, comp_dict, dropped_genes_count, fit_log>>
poolVars == <<task_queue, workers, async_results, shared_dict>>
vars == <<pc, adata, args, bic, callVars, batchVars, poolVars>>

(***************************** bounds **************************************)
Rows == 2
Cols == 2
MaxCount == 2
MaxComp == 3
Support == 3
NumGenes == 3
MaxThread == 2

(************************** Python values **********************************)
NoneVal == [kind |-> "none"]
Raise(t, m) == [kind |-> "raise", exc |-> t, msg |-> m]
Matrices == [0..(Rows - 1) -> [0..(Cols - 1) -> 0..MaxCount]]

\* Stored data that get_exp_array cannot turn into a count matrix.
Bad == [r \in 0..(Rows - 1) |-> [c \in 0..(Cols - 1) |-> -1]]

RECURSIVE Repeat(_, _)
Repeat(x, n) == IF n <= 0 THEN <<>> ELSE <<x>> \o Repeat(x, n - 1)

RECURSIVE Flatten(_)
Flatten(ss) == IF ss = <<>> THEN <<>> ELSE Head(ss) \o Flatten(Tail(ss))

\* Row-major enumeration of the cells of a Rows x Cols array.
CellSeq == [i \in 1..(Rows * Cols) |-> <<(i - 1) \div Cols, (i - 1) % Cols>>]

(************************** Sample Builder *********************************)
\* Variant: the mask keeps only cells above 1.
Mask_AboveOne(matrix, p) == matrix[p[1]][p[2]] > 1

\* matrix > 0 : the boolean mask of line 329/330
Mask(matrix, p) == matrix[p[1]][p[2]] > 0

\* np.column_stack(np.where(matrix > 0)) : coordinates of set cells, row-major
WhereCoords(matrix) == SelectSeq(CellSeq, LAMBDA p : Mask(matrix, p))

\* matrix[matrix > 0].flatten() : the values of the set cells, row-major
MaskedCounts(matrix) ==
    LET cs == SelectSeq(CellSeq, LAMBDA p : Mask(matrix, p))
    IN  [i \in DOMAIN cs |-> matrix[cs[i][1]][cs[i][2]]]

\* np.repeat(coords, counts, axis=0)
NpRepeat(coords, counts) ==
    Flatten([i \in DOMAIN coords |-> Repeat(coords[i], counts[i])])

_array_to_list(matrix) == NpRepeat(WhereCoords(matrix), MaskedCounts(matrix))

\* Number of entries of a sequence equal to x.
Occurrences(s, x) == Cardinality({i \in DOMAIN s : s[i] = x})

\* len(set(map(tuple, result)))
Distinct(s) == Cardinality({s[i] : i \in DOMAIN s})

(************************ external collaborators ***************************)
GeneNames == <<"g1", "g2", "g3", "g4", "g5">>
BadMsg == "Dimension mismatch"
PercentileMsg == "Percentiles must be in the range [0, 100]"
SolverMsg == "Expected n_samples >= n_components"
UnpackMsg == "cannot unpack non-iterable NoneType object"
EmptyMinMsg == "min() arg is an empty sequence"

\* get_exp_array(adata, gene_name): the gene's count matrix; a gene whose
\* stored data is unusable makes the collaborator raise.
get_exp_array(ad, gene_name) ==
    IF ad[gene_name] = Bad THEN Raise("ValueError", <<BadMsg>>)
    ELSE [kind |-> "array", matrix |-> ad[gene_name]]

\* mixture.GaussianMixture(n_components, max_iter, reg_covar).fit(result):
\* the fitted model, tagged with the parameters it was built from; the solver
\* rejects a sample with fewer points than components.
GaussianMixtureFit(result, n_components, max_iter, reg_covar) ==
    IF n_components < 1 \/ Len(result) < n_components
    THEN Raise("ValueError", <<SolverMsg>>)
    ELSE [kind |-> "gmm", n_components |-> n_components,
          max_iter |-> max_iter, reg_covar |-> reg_covar, data |-> result]

SolverCall(n_components, max_iter, reg_covar) ==
    [n_components |-> n_components, max_iter |-> max_iter, reg_covar |-> reg_covar]

\* Python's int | int on two's-complement integers, exact for operands in
\* -2^(BitWidth-1) .. 2^(BitWidth-1)-1.
BitWidth == 9

RECURSIVE Pow2(_)
Pow2(n) == IF n = 0 THEN 1 ELSE 2 * Pow2(n - 1)

RECURSIVE OrBits(_, _, _)
OrBits(a, b, n) ==
    IF n = 0 THEN 0
    ELSE (IF a % 2 = 1 \/ b % 2 = 1 THEN 1 ELSE 0)
         + 2 * OrBits(a \div 2, b \div 2, n - 1)

BitOr(a, b) ==
    LET u == OrBits(a % Pow2(BitWidth), b % Pow2(BitWidth), BitWidth)
    IN  IF u >= Pow2(BitWidth - 1) THEN u - Pow2(BitWidth) ELSE u

\* The flattened array, sorted ascending (what np.percentile interpolates on).
FlatValues(matrix) ==
    [i \in 1..(Rows * Cols) |-> matrix[CellSeq[i][1]][CellSeq[i][2]]]

SortedValues(matrix) ==
    LET flat == FlatValues(matrix)
    IN  Flatten([v \in 1..(MaxCount + 1) |-> Repeat(v - 1, Occurrences(flat, v - 1))])

\* 100 * np.percentile(matrix, q) for 0 <= q <= 100 (linear interpolation
\* between the two closest ranks), kept in integers.
Percentile100(matrix, q) ==
    LET s   == SortedValues(matrix)
        n   == Len(s)
        pos == q * (n - 1)
        i   == pos \div 100
        r   == pos % 100
        lo  == s[i + 1]
        hi  == IF i + 2 <= n THEN s[i + 2] ELSE lo
    IN  100 * lo + r * (hi - lo)

\* np.percentile(dense_array, q): rejects q outside [0, 100]
NpPercentile(matrix, q) ==
    IF q < 0 \/ q > 100 THEN Raise("ValueError", <<PercentileMsg>>)
    ELSE [kind |-> "pct", v100 |-> Percentile100(matrix, q)]

(***************************** Model Fitter ********************************)
\* line 104:  threshold > 100 | threshold < 0
\* "|" binds tighter than the comparisons, which then chain:
\*     threshold > (100 | threshold)  and  (100 | threshold) < 0
ThresholdIllegal(threshold) ==
    /\ threshold > BitOr(100, threshold)
    /\ BitOr(100, threshold) < 0

\* np.where(dense_array > p, 1, 0)
Binarize(matrix, v100) ==
    [r \in 0..(Rows - 1) |-> [c \in 0..(Cols - 1) |->
        IF 100 * matrix[r][c] > v100 THEN 1 ELSE 0]]

\* dense_array[dense_array < p] = 0 (on the array get_exp_array handed out;
\* the container itself is taken to be left as it was)
CutBelow(matrix, v100) ==
    [r \in 0..(Rows - 1) |-> [c \in 0..(Cols - 1) |->
        IF 100 * matrix[r][c] < v100 THEN 0 ELSE matrix[r][c]]]

\* Variant: the guard demands strictly more points than components.
EnoughPoints_Strict(result, n_comp) == Distinct(result) > n_comp

\* line 114: the distinct-point guard of fit_gmm
EnoughPoints(result, n_comp) == Distinct(result) >= n_comp

Ended(ret, smp, calls, pcts, out) ==
    [ret |-> ret, sample |-> smp, calls |-> calls, pcts |-> pcts, out |-> out]

\* lines 113-119: guard, solver call, return
FitTail(result, n_comp, max_iter, reg_covar, pcts, out) ==
    IF EnoughPoints(result, n_comp)
    THEN Ended(GaussianMixtureFit(result, n_comp, max_iter, reg_covar), result,
               <<SolverCall(n_comp, max_iter, reg_covar)>>, pcts, out)
    ELSE Ended(NoneVal, result, <<>>, pcts, out)

WarnLine == "Warning: the threshold is illegal, the value in [0, 100] is accepted."

\* fit_gmm, lines 102-119.  The value is the return value (or exception)
\* together with everything the call did: the sample it built, the solver
\* invocations, the percentile arguments and the lines printed.
fit_gmm(ad, gene_name, n_comp, cut, binary, threshold, max_iter, reg_covar) ==
    LET dense == get_exp_array(ad, gene_name)
    IN  IF dense.kind = "raise" THEN Ended(dense, <<>>, <<>>, <<>>, <<>>)
        ELSE IF binary THEN
            LET bad == ThresholdIllegal(threshold)
                out == IF bad THEN <<WarnLine>> ELSE <<>>
                th  == IF bad THEN 100 ELSE threshold
                p   == NpPercentile(dense.matrix, th)
            IN  IF p.kind = "raise" THEN Ended(p, <<>>, <<>>, <<th>>, out)
                ELSE FitTail(_array_to_list(Binarize(dense.matrix, p.v100)),
                             n_comp, max_iter, reg_covar, <<th>>, out)
        ELSE IF cut THEN
            LET p == NpPercentile(dense.matrix, threshold)
            IN  IF p.kind = "raise" THEN Ended(p, <<>>, <<>>, <<threshold>>, <<>>)
                ELSE FitTail(_array_to_list(CutBelow(dense.matrix, p.v100)),
                             n_comp, max_iter, reg_covar, <<threshold>>, <<>>)
        ELSE FitTail(_array_to_list(dense.matrix),
                     n_comp, max_iter, reg_covar, <<>>, <<>>)

\* sklearn's default reg_covar, used when fit_gmm_bic builds the mixture
DefaultRegCovar == "1e-6"

\* min(bic_list); Python raises on an empty list (handled by the caller here)
ListMin(s) == CHOOSE m \in {s[i] : i \in DOMAIN s} : \A i \in DOMAIN s : m <= s[i]

\* Variant: position of the last occurrence.
ListIndex_Last(s, x) ==
    (CHOOSE i \in DOMAIN s : s[i] = x /\ \A j \in (i + 1)..Len(s) : s[j] # x) - 1

\* bic_list.index(x): 0-based position of the first occurrence
ListIndex(s, x) ==
    (CHOOSE i \in DOMAIN s : s[i] = x /\ \A j \in 1..(i - 1) : s[j] # x) - 1

\* lines 55-60: the candidate loop, stopped by the first fit that raises
RECURSIVE BicLoop(_, _, _, _, _, _)
BicLoop(result, gene_name, i, max_n_comp, max_iter, acc) ==
    IF i >= max_n_comp THEN acc
    ELSE LET gmm   == GaussianMixtureFit(result, i, max_iter, DefaultRegCovar)
             calls == Append(acc.calls, SolverCall(i, max_iter, DefaultRegCovar))
         IN  IF gmm.kind = "raise"
             THEN [acc EXCEPT !.err = gmm, !.calls = calls]
             ELSE BicLoop(result, gene_name, i + 1, max_n_comp, max_iter,
                          [acc EXCEPT !.calls = calls,
                                      !.bic_list = Append(@, bic[<<gene_name, i>>]),
                                      !.gmm_list = Append(@, gmm)])

\* lines 62-64: pick the first minimum and translate its position
SelectBest(min_n_comp, bic_list, gmm_list) ==
    LET index  == ListIndex(bic_list, ListMin(bic_list))
        n_comp == min_n_comp + index
    IN  [kind |-> "pair", n_comp |-> n_comp, gmm |-> gmm_list[index + 1]]

\* line 52: the distinct-point guard of fit_gmm_bic
MorePointsThan(result, min_n_comp) == Distinct(result) > min_n_comp

\* fit_gmm_bic, lines 49-66
fit_gmm_bic(ad, gene_name, min_n_comp, max_n_comp, max_iter) ==
    LET dense == get_exp_array(ad, gene_name)
    IN  IF dense.kind = "raise" THEN Ended(dense, <<>>, <<>>, <<>>, <<>>)
        ELSE LET result == _array_to_list(dense.matrix)
             IN  IF MorePointsThan(result, min_n_comp)
                 THEN LET l == BicLoop(result, gene_name, min_n_comp, max_n_comp, max_iter,
                                       [err |-> NoneVal, calls |-> <<>>,
                                        bic_list |-> <<>>, gmm_list |-> <<>>])
                      IN  IF l.err.kind = "raise"
                          THEN Ended(l.err, result, l.calls, <<>>, <<>>)
                          ELSE IF l.bic_list = <<>>
                          THEN Ended(Raise("ValueError", <<EmptyMinMsg>>),
                                     result, l.calls, <<>>, <<>>)
                          ELSE Ended(SelectBest(min_n_comp, l.bic_list, l.gmm_list),
                                     result, l.calls, <<>>, <<>>)
                 ELSE Ended(NoneVal, result, <<>>, <<>>, <<>>)

(***************** specification: one _array_to_list call ******************)
\* Nothing has run yet: no result, empty logs, empty dictionaries.
NothingDone ==
    /\ outcome = NoneVal
    /\ sample = <<>>
    /\ solver_calls = <<>>
    /\ pct_calls = <<>>
    /\ stdout = <<>>
    /\ idx = 0
    /\ gmm_dict = <<>>
    /\ comp_dict = <<>>
    /\ dropped_genes_count = 0
    /\ fit_log = <<>>
    /\ task_queue = <<>>
    /\ workers = <<>>
    /\ async_results = <<>>
    /\ shared_dict = <<>>

InitArray ==
    /\ pc = "array_call"
    /\ adata = <<>>
    /\ args \in {[matrix |-> m] : m \in Matrices}
    /\ NothingDone
    /\ bic = <<>>

CallArrayToList ==
    /\ pc = "array_call"
    /\ sample' = _array_to_list(args.matrix)
    /\ outcome' = [kind |-> "cloud"]
    /\ pc' = "array_done"
    /\ UNCHANGED <<adata, args, solver_calls, pct_calls, stdout, bic, batchVars, poolVars>>

NextArray == CallArrayToList

SpecArray == InitArray /\ [][NextArray]_vars

\* C1: after _array_to_list(M), every coordinate (r, c) occurs in the point
\* cloud exactly M[r][c] times, so re-counting the cloud reproduces M and
\* cells holding 0 never appear.
C1_RoundTrip ==
    pc = "array_done" =>
        /\ \A r \in 0..(Rows - 1) : \A c \in 0..(Cols - 1) :
               Occurrences(sample, <<r, c>>) = args.matrix[r][c]
        /\ \A i \in DOMAIN sample :
               /\ sample[i][1] \in 0..(Rows - 1)
               /\ sample[i][2] \in 0..(Cols - 1)

C1_Witness ==
    /\ pc = "array_done"
    /\ \E r \in 0..(Rows - 1) : \E c \in 0..(Cols - 1) :
           args.matrix[r][c] >= 2 /\ Occurrences(sample, <<r, c>>) >= 2
    /\ \E r \in 0..(Rows - 1) : \E c \in 0..(Cols - 1) :
           args.matrix[r][c] = 0 /\ Occurrences(sample, <<r, c>>) = 0
(******************** specification: one fit_gmm call ***********************)
Thresholds == {-3, 0, 50, 95, 100, 150}
SolverParams == {[max_iter |-> 100, reg_covar |-> "1e-3"],
                 [max_iter |-> 200, reg_covar |-> "1e-6"]}
TheGene == GeneNames[1]

\* Count matrices whose first Support cells (row-major) are free and whose
\* other cells hold 0.
FitMatrices ==
    {[r \in 0..(Rows - 1) |-> [c \in 0..(Cols - 1) |->
         IF r * Cols + c + 1 <= Support THEN v[r * Cols + c + 1] ELSE 0]] :
     v \in [1..Support -> 0..MaxCount]}

InitFit ==
    /\ pc = "fit_call"
    /\ adata \in [{TheGene} -> FitMatrices \cup {Bad}]
    /\ \E n \in 1..MaxComp, cu \in BOOLEAN, bi \in BOOLEAN, th \in Thresholds,
          sp \in SolverParams :
           args = [gene_name |-> TheGene, n_comp |-> n, cut |-> cu, binary |-> bi,
                   threshold |-> th, max_iter |-> sp.max_iter,
                   reg_covar |-> sp.reg_covar]
    /\ NothingDone
    /\ bic = <<>>

CallFitGmm ==
    /\ pc = "fit_call"
    /\ LET r == fit_gmm(adata, args.gene_name, args.n_comp, args.cut, args.binary,
                        args.threshold, args.max_iter, args.reg_covar)
       IN  /\ outcome' = r.ret
           /\ sample' = r.sample
           /\ solver_calls' = r.calls
           /\ pct_calls' = r.pcts
           /\ stdout' = r.out
    /\ pc' = "fit_done"
    /\ UNCHANGED <<adata, args, bic, batchVars, poolVars>>

NextFit == CallFitGmm

SpecFit == InitFit /\ [][NextFit]_vars

InRange(q) == q >= 0 /\ q <= 100

\* C7: a fit_gmm call in a mode that uses the threshold (binary or cut) with
\* a threshold outside [0, 100] reports a correction and hands only values
\* inside [0, 100] to the percentile computation.
C7_ThresholdGuard ==
    (/\ pc = "fit_done"
     /\ adata[TheGene] # Bad
     /\ (args.binary \/ args.cut)
     /\ ~InRange(args.threshold))
    => /\ \E i \in DOMAIN stdout : stdout[i] = WarnLine
       /\ pct_calls # <<>>
       /\ \A i \in DOMAIN pct_calls : InRange(pct_calls[i])

\* The sample of the call was built: the collaborator delivered a matrix and
\* no percentile computation rejected its argument.
PreprocessOk ==
    /\ adata[TheGene] # Bad
    /\ \A i \in DOMAIN pct_calls : InRange(pct_calls[i])

BicVals == {1, 2}

InitBic ==
    /\ pc = "bic_call"
    /\ adata \in [{TheGene} -> FitMatrices \cup {Bad}]
    /\ args \in [gene_name : {TheGene}, min_n_comp : 1..(MaxComp - 1),
                 max_n_comp : 1..(MaxComp + 1), max_iter : {100}]
    /\ NothingDone
    /\ bic \in [{TheGene} \X (1..MaxComp) -> BicVals]

CallFitGmmBic ==
    /\ pc = "bic_call"
    /\ LET r == fit_gmm_bic(adata, args.gene_name, args.min_n_comp,
                            args.max_n_comp, args.max_iter)
       IN  /\ outcome' = r.ret
           /\ sample' = r.sample
           /\ solver_calls' = r.calls
    /\ pc' = "bic_done"
    /\ UNCHANGED <<adata, args, pct_calls, stdout, bic, batchVars, poolVars>>

NextBic == CallFitGmmBic

SpecBic == InitBic /\ [][NextBic]_vars

Candidates == args.min_n_comp..(args.max_n_comp - 1)

\* One solver invocation per candidate count, in increasing order.
OneFitPerCandidate ==
    /\ Len(solver_calls) = Cardinality(Candidates)
    /\ \A i \in DOMAIN solver_calls :
           solver_calls[i].n_components = args.min_n_comp + i - 1

\* The returned pair is the smallest candidate of minimum BIC, and the
\* returned model is the one fitted with the returned count.
BestReturned ==
    /\ outcome.kind = "pair"
    /\ outcome.n_comp \in Candidates
    /\ \A k \in Candidates :
           /\ bic[<<TheGene, outcome.n_comp>>] <= bic[<<TheGene, k>>]
           /\ k < outcome.n_comp => bic[<<TheGene, outcome.n_comp>>] < bic[<<TheGene, k>>]
    /\ outcome.gmm.kind = "gmm"
    /\ outcome.gmm.n_components = outcome.n_comp
    /\ outcome.gmm.data = sample

PassedBicGuard ==
    /\ pc = "bic_done"
    /\ adata[TheGene] # Bad
    /\ Distinct(sample) > args.min_n_comp

AllCandidatesFit ==
    \A k \in Candidates :
        GaussianMixtureFit(sample, k, args.max_iter, DefaultRegCovar).kind = "gmm"

Genes == {GeneNames[i] : i \in 1..NumGenes}

\* Representative count matrices: no point, two cells, every cell.
MatZero == [r \in 0..(Rows - 1) |-> [c \in 0..(Cols - 1) |-> 0]]
MatTwo == [r \in 0..(Rows - 1) |-> [c \in 0..(Cols - 1) |->
               IF r = 0 THEN 0 ELSE IF c = 0 THEN 1 ELSE IF c = 1 THEN MaxCount ELSE 0]]
MatFull == [r \in 0..(Rows - 1) |-> [c \in 0..(Cols - 1) |-> 1]]
GeneData == {MatZero, MatTwo, MatFull, Bad}

\* The gene lists: g1, ..., gn for n up to NumGenes (identifiers are unique).
GeneLists == {[i \in 1..n |-> GeneNames[i]] : n \in 0..NumGenes}

BicTables ==
    { [gk \in Genes \X (1..MaxComp) |-> 1],
      [gk \in Genes \X (1..MaxComp) |-> IF gk[2] % 2 = 0 THEN 1 ELSE 2] }

\* The containers for a list of n genes; the genes outside the list play no
\* part and hold the empty matrix.
Containers(n, data) ==
    {f \in [Genes -> data] : \A i \in (n + 1)..NumGenes : f[GeneNames[i]] = MatZero}

\* gmm_dict[gene_id] = fit_result
DictSet(d, k, v) == [x \in (DOMAIN d) \cup {k} |-> IF x = k THEN v ELSE d[x]]

\* lines 209-213: comp_dict[n_comp].append(gene_id), creating the list first
CompAppend(d, n_comp, gene_id) ==
    IF n_comp \notin DOMAIN d
    THEN DictSet(d, n_comp, <<gene_id>>)
    ELSE DictSet(d, n_comp, Append(d[n_comp], gene_id))

\* Variant: the wrapped error leaves the gene identifier out.
WrapError_NoGene(gene_id, e) ==
    Raise("ValueError", <<"Error: ">> \o e.msg)

\* lines 168-170 / 214-216:
\*   raise ValueError("Gene id: " + gene_id + "\nError: " + str(e))
WrapError(gene_id, e) ==
    Raise("ValueError", <<"Gene id: ", gene_id, "\nError: ">> \o e.msg)

\* Variant: every fit result is stored.
HasResult_Always(fit_result) == TRUE

\* line 164: fit_result is not None
HasResult(fit_result) == fit_result # NoneVal

\* line 172
DroppedLine(n) == <<"Number of dropped genes: ", n>>

LogEntry(gene_id, ret) ==
    [gene |-> gene_id, kind |-> ret.kind,
     msg |-> IF ret.kind = "raise" THEN ret.msg ELSE <<>>]

BatchModes == {[binary |-> FALSE, threshold |-> 95],
               [binary |-> TRUE, threshold |-> 95],
               [binary |-> TRUE, threshold |-> 150]}

InitBatch ==
    /\ NothingDone
    /\ \/ /\ pc = "gmms_loop"
          /\ bic = <<>>
          /\ \E l \in GeneLists, n \in 1..MaxComp, m \in BatchModes :
                 /\ adata \in Containers(Len(l), GeneData)
                 /\ args = [gene_name_list |-> l, n_comp |-> n, binary |-> m.binary,
                            threshold |-> m.threshold, max_iter |-> 100,
                            reg_covar |-> "1e-3"]
       \/ /\ pc = "gmms_bic_loop"
          /\ bic \in BicTables
          /\ \E l \in GeneLists, n \in 1..(MaxComp - 1), x \in 1..(MaxComp + 1) :
                 /\ adata \in Containers(Len(l), GeneData)
                 /\ args = [gene_name_list |-> l, min_n_comp |-> n,
                            max_n_comp |-> x, max_iter |-> 100]

\* fit_gmms, one pass of the loop body (lines 153-170)
FitGmmsStep ==
    /\ pc = "gmms_loop"
    /\ idx < Len(args.gene_name_list)
    /\ LET gene_id == args.gene_name_list[idx + 1]
           r == fit_gmm(adata, gene_id, args.n_comp, FALSE, args.binary,
                        args.threshold, args.max_iter, args.reg_covar)
       IN  /\ fit_log' = Append(fit_log, LogEntry(gene_id, r.ret))
           /\ solver_calls' = solver_calls \o r.calls
           /\ pct_calls' = pct_calls \o r.pcts
           /\ stdout' = stdout \o r.out
           /\ idx' = idx + 1
           /\ IF r.ret.kind = "raise"
              THEN /\ outcome' = WrapError(gene_id, r.ret)
                   /\ pc' = "gmms_done"
                   /\ UNCHANGED <<gmm_dict, dropped_genes_count>>
              ELSE IF HasResult(r.ret)
              THEN /\ gmm_dict' = DictSet(gmm_dict, gene_id, r.ret)
                   /\ UNCHANGED <<outcome, pc, dropped_genes_count>>
              ELSE /\ dropped_genes_count' = dropped_genes_count + 1
                   /\ UNCHANGED <<outcome, pc, gmm_dict>>
    /\ UNCHANGED <<adata, args, bic, sample, comp_dict, poolVars>>

\* fit_gmms, after the loop (lines 171-173)
FitGmmsReturn ==
    /\ pc = "gmms_loop"
    /\ idx = Len(args.gene_name_list)
    /\ stdout' = IF dropped_genes_count > 0
                 THEN Append(stdout, DroppedLine(dropped_genes_count))
                 ELSE stdout
    /\ outcome' = [kind |-> "dict", gmm_dict |-> gmm_dict]
    /\ pc' = "gmms_done"
    /\ UNCHANGED <<adata, args, bic, sample, solver_calls, pct_calls, batchVars, poolVars>>

\* fit_gmms_bic, one pass of the loop body (lines 201-216).  Unpacking the
\* None that fit_gmm_bic returns raises TypeError inside the try block.
FitGmmsBicStep ==
    /\ pc = "gmms_bic_loop"
    /\ idx < Len(args.gene_name_list)
    /\ LET gene_id == args.gene_name_list[idx + 1]
           r == fit_gmm_bic(adata, gene_id, args.min_n_comp, args.max_n_comp,
                            args.max_iter)
       IN  /\ fit_log' = Append(fit_log, LogEntry(gene_id, r.ret))
           /\ solver_calls' = solver_calls \o r.calls
           /\ idx' = idx + 1
           /\ IF r.ret.kind = "raise"
              THEN /\ outcome' = WrapError(gene_id, r.ret)
                   /\ pc' = "gmms_bic_done"
                   /\ UNCHANGED <<gmm_dict, comp_dict>>
              ELSE IF r.ret = NoneVal
              THEN /\ outcome' = WrapError(gene_id, Raise("TypeError", <<UnpackMsg>>))
                   /\ pc' = "gmms_bic_done"
                   /\ UNCHANGED <<gmm_dict, comp_dict>>
              ELSE /\ gmm_dict' = DictSet(gmm_dict, gene_id, r.ret.gmm)
                   /\ comp_dict' = CompAppend(comp_dict, r.ret.n_comp, gene_id)
                   /\ UNCHANGED <<outcome, pc>>
    /\ UNCHANGED <<adata, args, bic, sample, pct_calls, stdout, dropped_genes_count, poolVars>>

\* fit_gmms_bic, after the loop (line 217)
FitGmmsBicReturn ==
    /\ pc = "gmms_bic_loop"
    /\ idx = Len(args.gene_name_list)
    /\ outcome' = [kind |-> "dicts", gmm_dict |-> gmm_dict, comp_dict |-> comp_dict]
    /\ pc' = "gmms_bic_done"
    /\ UNCHANGED <<adata, args, bic, sample, solver_calls, pct_calls, stdout, batchVars, poolVars>>

NextBatch == FitGmmsStep \/ FitGmmsReturn \/ FitGmmsBicStep \/ FitGmmsBicReturn

SpecBatch == InitBatch /\ [][NextBatch]_vars
GeneList == args.gene_name_list

\* What the Model Fitter gives for one gene under the batch's parameters.
GmmsFitOf(g) ==
    fit_gmm(adata, g, args.n_comp, FALSE, args.binary, args.threshold,
            args.max_iter, args.reg_covar).ret

GmmsBicFitOf(g) ==
    fit_gmm_bic(adata, g, args.min_n_comp, args.max_n_comp, args.max_iter).ret

\* C3: a fit_gmms batch in which no gene's fit raises returns a mapping whose
\* keys are exactly the genes whose fit returned a model (never None), and
\* the dropped-gene counter is the number of genes whose fit returned None,
\* so that mapping size plus dropped count is the length of the list.
C3_BatchIsolation ==
    (/\ pc = "gmms_done"
     /\ \A i \in DOMAIN GeneList : GmmsFitOf(GeneList[i]).kind # "raise")
    => /\ outcome.kind = "dict"
       /\ DOMAIN outcome.gmm_dict =
              {GeneList[i] : i \in {j \in DOMAIN GeneList :
                                       GmmsFitOf(GeneList[j]).kind = "gmm"}}
       /\ \A g \in DOMAIN outcome.gmm_dict :
              outcome.gmm_dict[g] = GmmsFitOf(g) /\ outcome.gmm_dict[g] # NoneVal
       /\ dropped_genes_count =
              Cardinality({i \in DOMAIN GeneList : GmmsFitOf(GeneList[i]) = NoneVal})
       /\ Cardinality(DOMAIN outcome.gmm_dict) + dropped_genes_count = Len(GeneList)
       /\ dropped_genes_count > 0 =>
              stdout # <<>> /\ stdout[Len(stdout)] = DroppedLine(dropped_genes_count)

C3_Witness ==
    /\ pc = "gmms_done"
    /\ outcome.kind = "dict"
    /\ Len(GeneList) >= 3
    /\ GmmsFitOf(GeneList[1]).kind = "gmm"
    /\ GmmsFitOf(GeneList[2]) = NoneVal
    /\ GmmsFitOf(GeneList[3]).kind = "gmm"
    /\ dropped_genes_count = 1
    /\ Cardinality(DOMAIN outcome.gmm_dict) = Len(GeneList) - 1

\* C6: in fit_gmms_bic a gene for which fit_gmm_bic returns None is dropped:
\* when no gene's fit raises, the batch returns its mappings, the None genes
\* are absent from them and every other gene of the list is present.
C6_BicBatchDrops ==
    (/\ pc = "gmms_bic_done"
     /\ \A i \in DOMAIN GeneList : GmmsBicFitOf(GeneList[i]).kind # "raise")
    => /\ outcome.kind = "dicts"
       /\ \A i \in DOMAIN GeneList :
              /\ GmmsBicFitOf(GeneList[i]) = NoneVal
                     => GeneList[i] \notin DOMAIN outcome.gmm_dict
              /\ GmmsBicFitOf(GeneList[i]).kind = "pair"
                     => GeneList[i] \in DOMAIN outcome.gmm_dict

Mentions(msg, piece) == \E i \in DOMAIN msg : msg[i] = piece

IsInfix(a, b) ==
    \E k \in 0..(Len(b) - Len(a)) : \A j \in 1..Len(a) : b[k + j] = a[j]

\* C9: in fit_gmms and fit_gmms_bic, once the fit of a gene has raised the
\* batch has ended by raising an error whose message holds that gene's
\* identifier and the original error text; no mapping is returned and that
\* gene's fit is the last one made.
C9_BatchAbort ==
    \A i \in DOMAIN fit_log :
        fit_log[i].kind = "raise" =>
            /\ pc \in {"gmms_done", "gmms_bic_done"}
            /\ outcome.kind = "raise"
            /\ Mentions(outcome.msg, fit_log[i].gene)
            /\ fit_log[i].msg # <<>>
            /\ IsInfix(fit_log[i].msg, outcome.msg)
            /\ i = Len(fit_log)
            /\ idx = i

C9_Witness ==
    /\ pc = "gmms_done"
    /\ outcome.kind = "raise"
    /\ Len(fit_log) = 2
    /\ Len(GeneList) >= 3
    /\ fit_log[1].kind = "gmm"
    /\ fit_log[2].kind = "raise"
    /\ fit_log[2].msg = <<BadMsg>>
    /\ outcome.msg = <<"Gene id: ", GeneList[2], "\nError: ", BadMsg>>
(*********************** parallel orchestrator ******************************)
\* fit_gmm_bic's default max_iter (line 30)
DefaultMaxIter == 200

\* _fit_worker, line 325: fit_gmm_bic(adata, gene_name, n_comp, max_iter).
\* The two trailing arguments are positional, so they land on fit_gmm_bic's
\* min_n_comp and max_n_comp, and its max_iter keeps the default.
FitWorkerCall(ad, gene_name, n_comp, max_iter) ==
    fit_gmm_bic(ad, gene_name, n_comp, max_iter, DefaultMaxIter)

Idle == [state |-> "idle", task |-> 0, result |-> NoneVal]

Pending == [status |-> "pending", error |-> NoneVal]

\* Variant: the join only waits for the queue to drain.
JoinReady_QueueOnly(queue, ws) == queue = <<>>

\* pool.join() returns when every worker has exited, which a worker does
\* once the pool is closed, the queue is drained and its task has ended.
JoinReady(queue, ws) ==
    /\ queue = <<>>
    /\ \A w \in DOMAIN ws : ws[w].state = "idle"

PoolMaxIters == {2, MaxComp + 1}
PoolData == {MatZero, MatFull, Bad}

\* One score table with ties between candidates is enough here.
PoolBic == [gk \in Genes \X (1..MaxComp) |-> IF gk[2] % 2 = 0 THEN 1 ELSE 2]

InitPool ==
    /\ pc = "mp_dispatch"
    /\ bic = PoolBic
    /\ args \in [gene_name_list : GeneLists, n_comp : 1..2,
                 max_iter : PoolMaxIters, thread : 1..MaxThread]
    /\ adata \in Containers(Len(args.gene_name_list), PoolData)
    /\ outcome = NoneVal
    /\ sample = <<>>
    /\ solver_calls = <<>>
    /\ pct_calls = <<>>
    /\ stdout = <<>>
    /\ idx = 0
    /\ gmm_dict = <<>>
    /\ comp_dict = <<>>
    /\ dropped_genes_count = 0
    /\ fit_log = <<>>
    /\ task_queue = <<>>
    /\ workers = [w \in 1..args.thread |-> Idle]
    /\ async_results = <<>>
    /\ shared_dict = <<>>

\* line 248: pool.apply_async(_fit_worker, ...); the AsyncResult is dropped
Dispatch ==
    /\ pc = "mp_dispatch"
    /\ idx < Len(args.gene_name_list)
    /\ task_queue' = Append(task_queue, idx + 1)
    /\ async_results' = Append(async_results, Pending)
    /\ idx' = idx + 1
    /\ UNCHANGED <<pc, adata, args, bic, callVars, gmm_dict, comp_dict,
                   dropped_genes_count, fit_log, workers, shared_dict>>

\* line 249: pool.close()
Close ==
    /\ pc = "mp_dispatch"
    /\ idx = Len(args.gene_name_list)
    /\ pc' = "mp_join"
    /\ UNCHANGED <<adata, args, bic, callVars, batchVars, poolVars>>

\* a pool worker takes the oldest queued task
WorkerTake(w) ==
    /\ workers[w].state = "idle"
    /\ task_queue # <<>>
    /\ workers' = [workers EXCEPT ![w] = [state |-> "fitting",
                                          task |-> Head(task_queue),
                                          result |-> NoneVal]]
    /\ task_queue' = Tail(task_queue)
    /\ UNCHANGED <<pc, adata, args, bic, callVars, batchVars, async_results,
                   shared_dict>>

\* line 325, right-hand side: the fit; an exception ends the task and is
\* kept in its AsyncResult, which nobody reads
WorkerFit(w) ==
    /\ workers[w].state = "fitting"
    /\ LET t == workers[w].task
           r == FitWorkerCall(adata, args.gene_name_list[t], args.n_comp,
                              args.max_iter)
       IN  /\ solver_calls' = solver_calls \o r.calls
           /\ IF r.ret.kind = "raise"
              THEN /\ async_results' = [async_results EXCEPT
                                           ![t] = [status |-> "error", error |-> r.ret]]
                   /\ workers' = [workers EXCEPT ![w] = Idle]
              ELSE /\ workers' = [workers EXCEPT ![w].state = "writing",
                                                 ![w].result = r.ret]
                   /\ UNCHANGED async_results
    /\ UNCHANGED <<pc, adata, args, bic, outcome, sample, pct_calls, stdout,
                   batchVars, task_queue, shared_dict>>

\* line 325, the assignment shared_dict[gene_name] = ...
WorkerWrite(w) ==
    /\ workers[w].state = "writing"
    /\ LET t == workers[w].task
       IN  /\ shared_dict' = DictSet(shared_dict, args.gene_name_list[t],
                                     workers[w].result)
           /\ async_results' = [async_results EXCEPT ![t].status = "ok"]
    /\ workers' = [workers EXCEPT ![w] = Idle]
    /\ UNCHANGED <<pc, adata, args, bic, callVars, batchVars, task_queue>>

\* line 250: pool.join()
Join ==
    /\ pc = "mp_join"
    /\ JoinReady(task_queue, workers)
    /\ pc' = "mp_copy"
    /\ UNCHANGED <<adata, args, bic, callVars, batchVars, poolVars>>

\* lines 251-252: normal_dict = dict(shared_dict); return normal_dict
Return ==
    /\ pc = "mp_copy"
    /\ outcome' = [kind |-> "dict", gmm_dict |-> shared_dict]
    /\ pc' = "mp_done"
    /\ UNCHANGED <<adata, args, bic, sample, solver_calls, pct_calls, stdout,
                   batchVars, poolVars>>

NextPool ==
    \/ Dispatch
    \/ Close
    \/ \E w \in DOMAIN workers : WorkerTake(w)
    \/ \E w \in DOMAIN workers : WorkerFit(w)
    \/ \E w \in DOMAIN workers : WorkerWrite(w)
    \/ Join
    \/ Return

SpecPool == InitPool /\ [][NextPool]_vars
\* What _fit_worker computes for one gene under the orchestrator's arguments.
WorkerFitOf(g) == FitWorkerCall(adata, g, args.n_comp, args.max_iter).ret

Failed(t) == async_results[t].status = "error"

\* C4: when a dispatched task has raised, the finished call to
\* fit_gmms_multiprocessing has raised an error naming the gene of a failed
\* task instead of returning a mapping.
C4_WorkerFailureSurfaces ==
    (pc = "mp_done" /\ \E t \in DOMAIN async_results : Failed(t))
    => /\ outcome.kind = "raise"
       /\ \E t \in DOMAIN async_results :
              Failed(t) /\ Mentions(outcome.msg, GeneList[t])

AllTasksFinished ==
    /\ Len(async_results) = Len(GeneList)
    /\ \A t \in DOMAIN async_results : async_results[t].status \in {"ok", "error"}
    /\ task_queue = <<>>
    /\ \A w \in DOMAIN workers : workers[w].state = "idle"

\* The mapping fixed by the arguments alone: every gene of the list whose
\* fit does not raise, with the value its fit gives.
ExpectedDict ==
    LET done == {g \in {GeneList[i] : i \in DOMAIN GeneList} :
                     WorkerFitOf(g).kind # "raise"}
    IN  [g \in done |-> WorkerFitOf(g)]

JoinedAndDeterministic ==
    /\ pc \in {"mp_copy", "mp_done"} => AllTasksFinished
    /\ pc = "mp_done" =>
           /\ outcome.kind = "dict"
           /\ DOMAIN outcome.gmm_dict = DOMAIN ExpectedDict
           /\ \A g \in DOMAIN ExpectedDict : outcome.gmm_dict[g] = ExpectedDict[g]

\* A step that changes the shared dictionary adds one new key and leaves
\* every existing entry as it was.
WriteOnce ==
    shared_dict' # shared_dict =>
        \E g \in Genes \ DOMAIN shared_dict :
            /\ DOMAIN shared_dict' = (DOMAIN shared_dict) \cup {g}
            /\ \A h \in DOMAIN shared_dict : shared_dict'[h] = shared_dict[h]

\* C5: fit_gmms_multiprocessing passes pool.join() and returns only when
\* every dispatched task has finished; every key of the shared dictionary is
\* written once and never overwritten; the returned mapping is fixed by the
\* arguments, whatever the interleaving of the workers and the pool size.
C5_JoinBarrier == [](JoinedAndDeterministic) /\ [][WriteOnce]_vars

C5_Witness ==
    /\ pc = "mp_done"
    /\ args.thread >= 2
    /\ Len(GeneList) >= 3
    /\ Cardinality(DOMAIN outcome.gmm_dict) >= 2
    /\ \E t \in DOMAIN async_results : Failed(t)

\* C10: every solver invocation made for fit_gmms_multiprocessing(adata,
\* genes, n_comp, max_iter, thread) fits n_comp components with max_iter as
\* the EM iteration budget.
C10_ParameterHandOff ==
    \A i \in DOMAIN solver_calls :
        /\ solver_calls[i].n_components = args.n_comp
        /\ solver_calls[i].max_iter = args.max_iter
====
